---- MODULE Spec2Model ----
(***************************************************************************)
(* A model of the static file server of src/src/server.rs and its access   *)
(* logger src/src/logger.rs: the accept loop, the request parser, the URI  *)
(* resolver with its path-traversal guard, the response builder and the    *)
(* log line.                                                               *)
(*                                                                         *)
(* Text is modelled by its decomposition at the separators the code looks  *)
(* at.  A request line is the sequence of its pieces between single        *)
(* whitespace characters; a piece is the sequence of its segments between  *)
(* '/' characters; a segment is the sequence of its parts between '.'      *)
(* characters.  So "GET" is << <<"GET">> >>, "/" is << <<"">>, <<"">> >>,  *)
(* "/a.txt" is << <<"">>, <<"a","txt">> >> and ".." is <<"","","">>.       *)
(* File contents are sequences of bytes.                                   *)
(***************************************************************************)
EXTENDS Integers, Sequences, FiniteSets, TLC

VARIABLES fs, pc, peer_addr, stream_in, request, path, response, wire, log, stderr,
          handled, writer, mutex, caller, call, ret

\* the state of DefaultLogger's writer and of the threads calling it
lvars == <<writer, mutex, caller>>

\* the state of the listener, of the connection being handled and of what
\* its handling left behind
mvars == <<fs, pc, peer_addr, stream_in, request, path, response, wire, log, stderr,
           handled>>

\* a function of the program called by itself: the call and what it returned
hvars == <<call, ret>>

vars == <<mvars, lvars, hvars>>

----------------------------------------------------------------------------
(* Bounds of the model *)

\* longest request target, in segments after the leading slash
MaxSegs == 2
\* most header lines a client sends before the end of the header block
MaxHeaders == 1
\* most connections the listener yields
MaxConnections == 2
\* longest target handed to the trimming of resolve_uri called on its own, in
\* segments between slashes
MaxTargetSegs == 5
\* most header lines handed to parse_headers called on its own
MaxLines == 2
\* most calls of write_request_log a thread makes
MaxCalls == 2
\* length of a log line, its newline included
LineLen == 2

----------------------------------------------------------------------------
(* Generic helpers *)

Last(s) == s[Len(s)]

Front(s) == SubSeq(s, 1, Len(s) - 1)

IsPrefix(p, s) == Len(p) <= Len(s) /\ SubSeq(s, 1, Len(p)) = p

RECURSIVE SeqsUpTo(_, _)
SeqsUpTo(S, n) ==
    IF n = 0 THEN {<<>>}
    ELSE LET shorter == SeqsUpTo(S, n - 1)
         IN  shorter \cup {Append(s, x) : s \in {t \in shorter : Len(t) = n - 1}, x \in S}

----------------------------------------------------------------------------
(* Names and strings *)

\* the empty segment: what lies between two adjacent slashes
EmptySeg == <<"">>
DotDot == <<"", "", "">>
IndexHtml == <<"index", "html">>
ATxt == <<"a", "txt">>
DName == <<"d">>
SrvName == <<"srv">>
SecretName == <<"secret">>

\* a piece of text without '/': one segment
Word(seg) == <<seg>>
EmptyWord == Word(EmptySeg)

\* bytes: 104 is 'h', 115 is 's', 255 never occurs in UTF-8
Hello == <<104>>
SecretData == <<115>>
NotUtf8 == <<255>>

----------------------------------------------------------------------------
(* The filesystem: absolute paths are sequences of names *)

FsRoot == <<>>
RootDir == <<SrvName>>
RootIndex == <<SrvName, IndexHtml>>
RootFile == <<SrvName, ATxt>>
SubDir == <<SrvName, DName>>
SubIndex == <<SrvName, DName, IndexHtml>>
Outside == <<SecretName>>

FsPaths == {FsRoot, RootDir, RootIndex, RootFile, SubDir, SubIndex, Outside}

NoNode == [kind |-> "none", data |-> <<>>, target |-> <<>>]
DirNode == [kind |-> "dir", data |-> <<>>, target |-> <<>>]
FileNode(data) == [kind |-> "file", data |-> data, target |-> <<>>]
LinkNode(target) == [kind |-> "link", data |-> <<>>, target |-> target]

\* the filesystems the server is run on: the root is a directory; below it an
\* index document, a file and a sub-directory with its own index document, each
\* absent, present, or a symbolic link leading out of the root
FsStates ==
    { [p \in FsPaths |->
         CASE p = FsRoot -> DirNode
           [] p = RootDir -> DirNode
           [] p = RootIndex -> ri
           [] p = RootFile -> rf
           [] p = SubDir -> sd
           [] p = SubIndex -> IF sd.kind = "dir" THEN si ELSE NoNode
           [] p = Outside -> out] :
        ri \in {NoNode, FileNode(Hello), LinkNode(Outside)},
        rf \in {NoNode, FileNode(Hello), FileNode(<<>>), FileNode(NotUtf8), LinkNode(Outside)},
        sd \in {NoNode, DirNode, LinkNode(FsRoot)},
        si \in {NoNode, FileNode(Hello), FileNode(NotUtf8), LinkNode(Outside)},
        out \in {NoNode, FileNode(SecretData)} }

\* of these, two with a file outside the root and a file in the root that is
\* not UTF-8: one without index document in the root and with a sub-directory
\* that has one, one with an index document in the root and a sub-directory
\* that is a link to "/"
FsSample ==
    {f \in FsStates :
        /\ f[Outside] = FileNode(SecretData)
        /\ f[RootFile] = FileNode(NotUtf8)
        /\ \/ /\ f[RootIndex] = NoNode
              /\ f[SubDir] = DirNode
              /\ f[SubIndex] = FileNode(Hello)
           \/ /\ f[RootIndex] = FileNode(Hello)
              /\ f[SubDir] = LinkNode(FsRoot)}

lstat(f, p) == IF p \in DOMAIN f THEN f[p] ELSE NoNode

IoOk(v) == [ok |-> TRUE, v |-> v, kind |-> "none"]
IoErr(kind) == [ok |-> FALSE, v |-> <<>>, kind |-> kind]

\* realpath(3): walk the components left to right over the resolved prefix;
\* ".." backs up, a missing entry fails with NotFound, a symbolic link is
\* replaced by its (absolute) target, and anything but a directory that is
\* followed by more components fails with NotADirectory
RECURSIVE realpath(_, _, _)
realpath(f, resolved, rest) ==
    IF rest = <<>> THEN IoOk(resolved)
    ELSE LET c == Head(rest)
             more == Tail(rest)
         IN  IF c = DotDot
             THEN realpath(f, IF resolved = <<>> THEN <<>> ELSE Front(resolved), more)
             ELSE LET here == Append(resolved, c)
                      node == lstat(f, here)
                  IN  CASE node.kind = "none" -> IoErr("NotFound")
                        [] node.kind = "link" -> realpath(f, <<>>, node.target \o more)
                        [] node.kind = "file" ->
                             IF more = <<>> THEN IoOk(here) ELSE IoErr("NotADirectory")
                        [] node.kind = "dir" -> realpath(f, here, more)

canonicalize(f, p) == realpath(f, <<>>, p)

\* stat(2) follows symbolic links
stat(f, p) ==
    LET c == canonicalize(f, p)
    IN  IF c.ok THEN lstat(f, c.v) ELSE NoNode

is_file(f, p) == stat(f, p).kind = "file"

is_dir(f, p) == stat(f, p).kind = "dir"

\* String::from_utf8 accepts the bytes read
IsUtf8(data) == \A i \in 1..Len(data) : data[i] < 128

read_to_string(f, p) ==
    LET node == stat(f, p)
    IN  CASE node.kind = "file" /\ IsUtf8(node.data) -> IoOk(node.data)
          [] node.kind = "file" -> IoErr("InvalidData")
          [] node.kind = "dir" -> IoErr("IsADirectory")
          [] OTHER -> IoErr("NotFound")

----------------------------------------------------------------------------
(* HttpFileServer::resolve_uri *)

trim_start_matches_Once(s) ==
    IF Len(s) > 1 /\ Head(s) = EmptySeg THEN Tail(s) ELSE s

RECURSIVE trim_start_matches(_)
trim_start_matches(s) ==
    IF Len(s) > 1 /\ Head(s) = EmptySeg THEN trim_start_matches(Tail(s)) ELSE s

RECURSIVE trim_end_matches(_)
trim_end_matches(s) ==
    IF Len(s) > 1 /\ Last(s) = EmptySeg THEN trim_end_matches(Front(s)) ELSE s

\* "".is_empty()
is_empty(s) == s = <<EmptySeg>>

\* PathBuf::join of a relative path: the components of the joined path; empty
\* segments (repeated slashes) are no components
join(base, rel) == base \o SelectSeq(rel, LAMBDA seg : seg # EmptySeg)

starts_with(p, base) == IsPrefix(base, p)

resolve_uri(f, uri, root) ==
    LET trimmed == trim_end_matches(trim_start_matches(uri))
        full_path == join(root, trimmed)
        canonical_full == canonicalize(f, full_path)
        canonical_root == canonicalize(f, root)
        index_path == canonical_full.v \o <<IndexHtml>>
    IN  IF is_empty(trimmed) THEN IoOk(root \o <<IndexHtml>>)
        ELSE IF ~canonical_full.ok THEN IoErr(canonical_full.kind)
        ELSE IF ~canonical_root.ok THEN IoErr(canonical_root.kind)
        ELSE IF ~starts_with(canonical_full.v, canonical_root.v)
             THEN IoErr("PermissionDenied")
        ELSE IF is_file(f, canonical_full.v) THEN IoOk(canonical_full.v)
        ELSE IF ~is_dir(f, canonical_full.v) THEN IoErr("NotFound")
        ELSE IF is_file(f, index_path) THEN IoOk(index_path)
        ELSE IoErr("NotFound")

----------------------------------------------------------------------------
(* Mime *)

\* Path::extension: the text after the last dot of the last component; none
\* when there is no dot, or only a leading one
extension(p) ==
    LET name == Last(p)
    IN  IF p = <<>> \/ name = DotDot \/ Len(name) = 1
           \/ (Len(name) = 2 /\ name[1] = "")
        THEN [some |-> FALSE, v |-> ""]
        ELSE [some |-> TRUE, v |-> Last(name)]

Mime_from_str(s) ==
    CASE s = "gz" -> [ok |-> TRUE, v |-> "GZip"]
      [] s = "json" -> [ok |-> TRUE, v |-> "Json"]
      [] s = "jsonld" -> [ok |-> TRUE, v |-> "JsonLd"]
      [] s = "bin" -> [ok |-> TRUE, v |-> "Binary"]
      [] s = "xml" -> [ok |-> TRUE, v |-> "Xml"]
      [] s = "zip" -> [ok |-> TRUE, v |-> "Zip"]
      [] s = "gif" -> [ok |-> TRUE, v |-> "Gif"]
      [] s \in {"jpeg", "jpg"} -> [ok |-> TRUE, v |-> "Jpeg"]
      [] s = "png" -> [ok |-> TRUE, v |-> "Png"]
      [] s = "svg" -> [ok |-> TRUE, v |-> "Svg"]
      [] s = "ics" -> [ok |-> TRUE, v |-> "ICalendar"]
      [] s = "css" -> [ok |-> TRUE, v |-> "Css"]
      [] s = "csv" -> [ok |-> TRUE, v |-> "Csv"]
      [] s = "html" -> [ok |-> TRUE, v |-> "Html"]
      [] s = "mjs" -> [ok |-> TRUE, v |-> "JavaScriptModule"]
      [] s = "js" -> [ok |-> TRUE, v |-> "JavaScript"]
      [] s = "md" -> [ok |-> TRUE, v |-> "Markdown"]
      [] s = "txt" -> [ok |-> TRUE, v |-> "PlainText"]
      [] OTHER -> [ok |-> FALSE, v |-> "Unkown file extension"]

Mime_as_str(m) ==
    CASE m = "GZip" -> "application/gzip"
      [] m = "Json" -> "application/json"
      [] m = "JsonLd" -> "application/ld+json"
      [] m = "Binary" -> "application/octet-stream"
      [] m = "Xml" -> "application/xml"
      [] m = "Zip" -> "application/zip"
      [] m = "Gif" -> "image/gif"
      [] m = "Jpeg" -> "image/jpeg"
      [] m = "Png" -> "image/png"
      [] m = "Svg" -> "image/svg+xml"
      [] m = "ICalendar" -> "text/calendar"
      [] m = "Css" -> "text/css"
      [] m = "Csv" -> "text/csv"
      [] m = "Html" -> "text/html"
      [] m \in {"JavaScriptModule", "JavaScript"} -> "text/javascript"
      [] m = "Markdown" -> "text/markdown"
      [] m = "PlainText" -> "text/plain"

mime_type_str_UnknownIsText(p) ==
    LET ext == extension(p)
        parsed == Mime_from_str(ext.v)
    IN  Mime_as_str(IF ext.some /\ parsed.ok THEN parsed.v ELSE "PlainText")

\* the content type process_request picks for a served path
mime_type_str(p) ==
    LET ext == extension(p)
        parsed == Mime_from_str(ext.v)
    IN  Mime_as_str(IF ext.some /\ parsed.ok THEN parsed.v ELSE "Binary")

----------------------------------------------------------------------------
(* HttpVersion, HttpMethod, HttpStatus, ParseRequestError *)

GetWord == Word(<<"GET">>)
PostWord == Word(<<"POST">>)
Http10Word == <<<<"HTTP">>, <<"1", "0">>>>
Http11Word == <<<<"HTTP">>, <<"1", "1">>>>
SlashWord == <<EmptySeg, EmptySeg>>

ParseOk(v) == [ok |-> TRUE, v |-> v, err |-> "none", detail |-> <<>>]
ParseErr(e, detail) == [ok |-> FALSE, v |-> <<>>, err |-> e, detail |-> detail]

\* a version parser that looks at the protocol name only
HttpVersion_from_str_AnyHttp(s) ==
    IF Head(s) = <<"HTTP">> THEN ParseOk("HTTP1_0") ELSE ParseErr("UnsupportedHttpVersion", <<>>)

HttpVersion_from_str(s) ==
    IF s = Http10Word THEN ParseOk("HTTP1_0") ELSE ParseErr("UnsupportedHttpVersion", <<>>)

HttpMethod_from_str(s) ==
    IF s = GetWord THEN ParseOk("Get") ELSE ParseErr("InvalidMethod", <<>>)

HttpVersion_Display(v) == CASE v = "HTTP1_0" -> "HTTP/1.0"

HttpMethod_Display(m) == CASE m = "Get" -> "GET"

\* the reason phrase, as the sequence of its words
HttpStatus_Display(s) ==
    CASE s = "BadRequest" -> <<"Bad", "Request">>
      [] s = "Forbidden" -> <<"Forbidden">>
      [] s = "HttpVersionNotSupported" -> <<"Http", "Version", "Not", "Supported">>
      [] s = "InternalServerError" -> <<"Interal", "Server", "Errror">>
      [] s = "MethodNotAllowed" -> <<"Method", "Not", "Allowed">>
      [] s = "NotFound" -> <<"Not", "Found">>
      [] s = "Ok" -> <<"Ok">>

\* a status mapping that blames the client for a failed read
\* ParseRequestError, the kinds of failure of the parse
ParseRequestError ==
    {"MalformedRequest", "InvalidMethod", "InvalidUri", "UnsupportedHttpVersion", "IoError"}

HttpStatus_from_InvalidMethodIs405(error) ==
    CASE error = "UnsupportedHttpVersion" -> "HttpVersionNotSupported"
      [] error \in {"MalformedRequest", "InvalidUri"} -> "BadRequest"
      [] error = "InvalidMethod" -> "MethodNotAllowed"
      [] error = "IoError" -> "InternalServerError"

HttpStatus_from_IoIsBadRequest(error) ==
    CASE error = "UnsupportedHttpVersion" -> "HttpVersionNotSupported"
      [] error \in {"MalformedRequest", "InvalidMethod", "InvalidUri", "IoError"} -> "BadRequest"

HttpStatus_from(error) ==
    CASE error = "UnsupportedHttpVersion" -> "HttpVersionNotSupported"
      [] error \in {"MalformedRequest", "InvalidMethod", "InvalidUri"} -> "BadRequest"
      [] error = "IoError" -> "InternalServerError"

code_NotFoundIs403(s) ==
    CASE s = "BadRequest" -> 400
      [] s = "Forbidden" -> 403
      [] s = "HttpVersionNotSupported" -> 505
      [] s = "InternalServerError" -> 500
      [] s = "MethodNotAllowed" -> 405
      [] s = "NotFound" -> 403
      [] s = "Ok" -> 200

code(s) ==
    CASE s = "BadRequest" -> 400
      [] s = "Forbidden" -> 403
      [] s = "HttpVersionNotSupported" -> 505
      [] s = "InternalServerError" -> 500
      [] s = "MethodNotAllowed" -> 405
      [] s = "NotFound" -> 404
      [] s = "Ok" -> 200

----------------------------------------------------------------------------
(* HttpRequest: the parser *)

\* what one read of the stream's line iterator yields: a line or an I/O error;
\* the end of the sequence is the end of the stream
LineEvent(txt) == [t |-> "line", txt |-> txt]
ErrEvent == [t |-> "err", txt |-> <<>>]

\* a header line is the sequence of its fields between ':' characters, a field
\* the sequence of its pieces between single whitespace characters:
\* "Referer: r" is << <<"Referer">>, <<"", "r">> >>, "" is << <<"">> >>
BlankLine == <<<<"">>>>

RECURSIVE trim_LeadingOnly(_)
trim_LeadingOnly(field) ==
    IF Len(field) > 1 /\ Head(field) = "" THEN trim_LeadingOnly(Tail(field)) ELSE field

\* str::trim on a field
RECURSIVE trim(_)
trim(field) ==
    IF Len(field) > 1 /\ Head(field) = "" THEN trim(Tail(field))
    ELSE IF Len(field) > 1 /\ Last(field) = "" THEN trim(Front(field))
    ELSE field

\* str::trim on text that may hold colons: leading whitespace of its first
\* field and trailing whitespace of its last field
RECURSIVE trim_text(_)
trim_text(fields) ==
    IF Len(fields) = 1 THEN <<trim(fields[1])>>
    ELSE IF Len(fields[1]) > 1 /\ Head(fields[1]) = ""
         THEN trim_text(<<Tail(fields[1])>> \o Tail(fields))
    ELSE IF Len(Last(fields)) > 1 /\ Last(Last(fields)) = ""
         THEN trim_text(Front(fields) \o <<Front(Last(fields))>>)
    ELSE fields

NoHeaders == <<>>

\* HashMap::insert
insert(headers, k, v) == [x \in DOMAIN headers \cup {k} |-> IF x = k THEN v ELSE headers[x]]

RECURSIVE parse_headers_loop(_, _)
parse_headers_loop(lines, headers) ==
    IF lines = <<>> THEN ParseOk(headers)
    ELSE LET e == Head(lines)
         IN  IF e.t = "err" THEN ParseErr("IoError", <<>>)
             ELSE IF e.txt = BlankLine THEN ParseOk(headers)
             ELSE IF Len(e.txt) = 1 THEN ParseErr("MalformedRequest", e.txt)
             ELSE parse_headers_loop(Tail(lines),
                      insert(headers, trim(Head(e.txt)), trim_text(Tail(e.txt))))

parse_headers(lines) == parse_headers_loop(lines, NoHeaders)

split_whitespace(line) == SelectSeq(line, LAMBDA w : w # EmptyWord)

\* the result of from_stream: Ok(None), Ok(Some(request)) or Err(error)
NoRequest == [method |-> "none", uri |-> <<>>, version |-> "none", headers |-> NoHeaders]

HttpRequest_new(method, uri, version, headers) ==
    [method |-> method, uri |-> uri, version |-> version, headers |-> headers]

\* a parser that reads the header block before it counts the tokens of the
\* request line
from_stream_request_HeadersFirst(request_line, rest) ==
    LET tokens == split_whitespace(request_line)
        headers == parse_headers(rest)
    IN  IF ~headers.ok THEN headers
        ELSE IF Len(tokens) # 3 THEN ParseErr("MalformedRequest", request_line)
        ELSE IF ~HttpMethod_from_str(tokens[1]).ok THEN HttpMethod_from_str(tokens[1])
        ELSE IF ~HttpVersion_from_str(tokens[3]).ok THEN HttpVersion_from_str(tokens[3])
        ELSE ParseOk(HttpRequest_new("Get", tokens[2], "HTTP1_0", headers.v))

\* a parser that parses the version before the method
from_stream_request_VersionFirst(request_line, rest) ==
    LET tokens == split_whitespace(request_line)
        headers == parse_headers(rest)
        method == HttpMethod_from_str(tokens[1])
        version == HttpVersion_from_str(tokens[3])
    IN  IF Len(tokens) # 3 THEN ParseErr("MalformedRequest", request_line)
        ELSE IF ~headers.ok THEN headers
        ELSE IF ~version.ok THEN version
        ELSE IF ~method.ok THEN method
        ELSE ParseOk(HttpRequest_new(method.v, tokens[2], version.v, headers.v))

\* from_stream once the request line is read: the request line is split, the
\* header block is read, then the method and the version are parsed
from_stream_request(request_line, rest) ==
    LET tokens == split_whitespace(request_line)
        headers == parse_headers(rest)
        method == HttpMethod_from_str(tokens[1])
        version == HttpVersion_from_str(tokens[3])
    IN  IF Len(tokens) # 3 THEN ParseErr("MalformedRequest", request_line)
        ELSE IF ~headers.ok THEN headers
        ELSE IF ~method.ok THEN method
        ELSE IF ~version.ok THEN version
        ELSE ParseOk(HttpRequest_new(method.v, tokens[2], version.v, headers.v))

\* a parser that takes the end of the stream for a malformed request
from_stream_EofIsMalformed(in) ==
    IF in = <<>> THEN ParseErr("MalformedRequest", <<>>)
    ELSE IF Head(in).t = "err" THEN ParseErr("IoError", <<>>)
    ELSE from_stream_request(Head(in).txt, Tail(in))

from_stream(in) ==
    IF in = <<>> THEN ParseOk(NoRequest)
    ELSE IF Head(in).t = "err" THEN ParseErr("IoError", <<>>)
    ELSE from_stream_request(Head(in).txt, Tail(in))

----------------------------------------------------------------------------
(* HttpResponse: the builder and the serializer *)

None == [some |-> FALSE, v |-> <<>>]
Some(v) == [some |-> TRUE, v |-> v]

NoResponse == [version |-> "none", status |-> "none", headers |-> NoHeaders, body |-> None]

HttpResponse_new_AlwaysSetsLength(status, headers, body) ==
    LET given == IF headers.some THEN headers.v ELSE NoHeaders
        with_length ==
            IF body.some
            THEN insert(given, "Content-Length", ToString(Len(body.v)))
            ELSE given
        with_type ==
            IF body.some /\ "Content-Type" \notin DOMAIN with_length
            THEN insert(with_length, "Content-Type", "text/plain")
            ELSE with_length
    IN  [version |-> "HTTP1_0", status |-> status, headers |-> with_type, body |-> body]

HttpResponse_new(status, headers, body) ==
    LET given == IF headers.some THEN headers.v ELSE NoHeaders
        with_length ==
            IF body.some /\ "Content-Length" \notin DOMAIN given
            THEN insert(given, "Content-Length", ToString(Len(body.v)))
            ELSE given
        with_type ==
            IF body.some /\ "Content-Type" \notin DOMAIN with_length
            THEN insert(with_length, "Content-Type", "text/plain")
            ELSE with_length
    IN  [version |-> "HTTP1_0", status |-> status, headers |-> with_type, body |-> body]

\* the orders in which iterating a HashMap can yield its keys
Orders(headers) ==
    LET keys == DOMAIN headers
        n == Cardinality(keys)
    IN  {o \in [1..n -> keys] : \A i, j \in 1..n : o[i] = o[j] => i = j}

StatusLine(version, n, reason) ==
    [k |-> "status", version |-> version, code |-> n, reason |-> reason]
HeaderLine(name, value) == [k |-> "header", name |-> name, value |-> value]
EmptyLine == [k |-> "empty"]

\* writeln!(f, "{body}"): the bytes of the body and the newline
BodyLineBytes(l) == l.data \o <<10>>

\* writeln!(f, "{} {} {}", version, code, status): the words of the status
\* line, separated by single spaces
StatusLineText(l) == <<l.version, ToString(l.code)>> \o l.reason
BodyLine(data) == [k |-> "body", data |-> data]

Display_NoEmptyLine(r, order) ==
    <<StatusLine(HttpVersion_Display(r.version), code(r.status), HttpStatus_Display(r.status))>>
    \o [i \in 1..Len(order) |-> HeaderLine(order[i], r.headers[order[i]])]
    \o (IF r.body.v # <<>> THEN <<BodyLine(r.body.v)>> ELSE <<>>)

\* fmt::Display for HttpResponse, the headers iterated in the given order: the
\* lines written, each ended by a newline
Display(r, order) ==
    <<StatusLine(HttpVersion_Display(r.version), code(r.status), HttpStatus_Display(r.status))>>
    \o [i \in 1..Len(order) |-> HeaderLine(order[i], r.headers[order[i]])]
    \o <<EmptyLine>>
    \o (IF r.body.v # <<>> THEN <<BodyLine(r.body.v)>> ELSE <<>>)

----------------------------------------------------------------------------
(* DefaultLogger::write_request_log *)

HttpMethod_Debug(m) == CASE m = "Get" -> "Get"

HttpVersion_Debug(v) == CASE v = "HTTP1_0" -> "HTTP1_0"

\* HashMap::get(..).map_or("-", ..)
get_or_dash(headers, name) ==
    IF <<name>> \in DOMAIN headers THEN headers[<<name>>] ELSE <<<<"-">>>>

log_line(req, resp, remote_addr) ==
    [remote_addr |-> remote_addr,
     remote_user |-> "\"-\"",
     time_local |-> "now",
     request_line |-> <<HttpMethod_Debug(req.method), req.uri, HttpVersion_Debug(req.version)>>,
     status |-> code(resp.status),
     body_bytes_sent |-> IF resp.body.some THEN Len(resp.body.v) ELSE 0,
     referer |-> get_or_dash(req.headers, "Referer"),
     user_agent |-> get_or_dash(req.headers, "User-Agent")]

\* the threads that share one DefaultLogger
Callers == {"t1", "t2"}

\* Mutex<BufWriter<File>>: unlocked, or the thread holding the guard
Unlocked == "unlocked"

\* a thread outside write_request_log, having made n calls
Idle(n) == [pc |-> "idle", calls |-> n, bytes |-> <<>>]

\* no function called on its own, and a call that has not returned
NoCall == [f |-> "none"]
NotReturned == [done |-> FALSE]
Returns(v) == [done |-> TRUE, v |-> v]

----------------------------------------------------------------------------
(* What clients send *)

SegNames == {IndexHtml, ATxt, DName, DotDot, SecretName, EmptySeg}

\* request targets: a slash followed by up to MaxSegs segments
Targets == {<<EmptySeg>> \o s : s \in SeqsUpTo(SegNames, MaxSegs) \ {<<>>}}

\* well-formed request lines for every target, sent with an empty header block
CleanLines == {<<GetWord, t, Http10Word>> : t \in Targets}

\* request lines for the target "/" with every method and version, with words
\* missing or added, and with doubled whitespace
DefectLines ==
    {<<m, SlashWord, v>> : m \in {GetWord, PostWord}, v \in {Http10Word, Http11Word}}
    \cup {<<EmptyWord>>, <<EmptyWord, EmptyWord>>, <<GetWord>>, <<GetWord, SlashWord>>,
          <<PostWord, SlashWord>>, <<GetWord, SlashWord, Http10Word, GetWord>>,
          <<PostWord, SlashWord, Http11Word, GetWord>>,
          <<GetWord, EmptyWord, SlashWord, Http10Word>>}

RefererHeader == <<<<"Referer">>, <<"", "r">>>>
ColonlessHeader == <<<<"oops">>>>

\* what follows the request line: header lines, then an empty line, the end of
\* the stream or a failed read
Scripts ==
    {h \o t : h \in SeqsUpTo({LineEvent(RefererHeader), LineEvent(ColonlessHeader)}, MaxHeaders),
              t \in {<<LineEvent(BlankLine)>>, <<>>, <<ErrEvent>>}}

StreamInputs ==
    {<<>>, <<ErrEvent>>}
    \cup {<<LineEvent(l), LineEvent(BlankLine)>> : l \in CleanLines}
    \cup {<<LineEvent(l)>> \o h : l \in DefectLines, h \in Scripts}

Peers == {"127.0.0.1:4000", "unknown"}

----------------------------------------------------------------------------
(* HttpFileServer: the accept loop and the handling of one connection *)

InitServer ==
    /\ fs \in FsStates
    /\ pc = "incoming"
    /\ peer_addr = "none"
    /\ stream_in = <<>>
    /\ request = NoRequest
    /\ path = <<>>
    /\ response = NoResponse
    /\ wire = <<>>
    /\ log = <<>>
    /\ stderr = 0
    /\ handled = 0
    /\ writer = <<>>
    /\ mutex = Unlocked
    /\ caller = [c \in Callers |-> Idle(0)]

\* the server as constructed, nothing called on its own
Init ==
    /\ InitServer
    /\ call = NoCall
    /\ ret = NotReturned

\* run: the listener yields the next connection; handle_connection takes the
\* peer address
Accept_WhileLogging ==
    /\ pc \in {"incoming", "write_request_log"}
    /\ handled < MaxConnections
    /\ \E in \in StreamInputs, addr \in Peers :
          /\ stream_in' = in
          /\ peer_addr' = addr
    /\ pc' = "from_stream"
    /\ UNCHANGED <<fs, request, path, response, wire, log, stderr, handled, lvars, hvars>>

Accept ==
    /\ pc = "incoming"
    /\ handled < MaxConnections
    /\ \E in \in StreamInputs, addr \in Peers :
          /\ stream_in' = in
          /\ peer_addr' = addr
    /\ pc' = "from_stream"
    /\ UNCHANGED <<fs, request, path, response, wire, log, stderr, handled, lvars, hvars>>

\* run: accepting fails and run returns the error
AcceptFails ==
    /\ pc = "incoming"
    /\ pc' = "stopped"
    /\ UNCHANGED <<fs, peer_addr, stream_in, request, path, response, wire, log, stderr, handled, lvars, hvars>>

\* handle_connection, the match on from_stream
FromStream ==
    /\ pc = "from_stream"
    /\ LET r == from_stream(stream_in)
       IN  IF r.ok /\ r.v = NoRequest
           THEN pc' = "returned" /\ UNCHANGED <<request, response>>
           ELSE IF r.ok
           THEN pc' = "process_request" /\ request' = r.v /\ UNCHANGED response
           ELSE /\ pc' = "send_error"
                /\ response' = HttpResponse_new(HttpStatus_from(r.err), None, None)
                /\ UNCHANGED request
    /\ UNCHANGED <<fs, peer_addr, stream_in, path, wire, log, stderr, handled, lvars, hvars>>

status_of_kind_OtherIsNotFound(kind) ==
    CASE kind = "PermissionDenied" -> "Forbidden"
      [] OTHER -> "NotFound"

\* process_request: the status for the kind of error resolve_uri returned
status_of_kind(kind) ==
    CASE kind = "PermissionDenied" -> "Forbidden"
      [] kind = "NotFound" -> "NotFound"
      [] OTHER -> "InternalServerError"

\* process_request up to the resolution of the URI
ProcessRequest ==
    /\ pc = "process_request"
    /\ LET r == resolve_uri(fs, request.uri, RootDir)
       IN  IF request.method # "Get"
           THEN /\ response' = HttpResponse_new("MethodNotAllowed", None, None)
                /\ pc' = "send_response"
                /\ UNCHANGED path
           ELSE IF request.version # "HTTP1_0"
           THEN /\ response' = HttpResponse_new("HttpVersionNotSupported", None, None)
                /\ pc' = "send_response"
                /\ UNCHANGED path
           ELSE IF ~r.ok
           THEN /\ response' = HttpResponse_new(status_of_kind(r.kind), None, None)
                /\ pc' = "send_response"
                /\ UNCHANGED path
           ELSE /\ path' = r.v
                /\ pc' = "read_to_string"
                /\ UNCHANGED response
    /\ UNCHANGED <<fs, peer_addr, stream_in, request, wire, log, stderr, handled, lvars, hvars>>

process_request_read_EmptyOk(f, p) ==
    LET r == read_to_string(f, p)
        headers == insert(NoHeaders, "Content-Type", mime_type_str(p))
    IN  HttpResponse_new("Ok", Some(headers), Some(r.v))

\* process_request from the read of the file on: the response for the path the
\* resolver returned
process_request_read(f, p) ==
    LET r == read_to_string(f, p)
        headers == insert(NoHeaders, "Content-Type", mime_type_str(p))
    IN  IF r.ok
        THEN HttpResponse_new("Ok", Some(headers), Some(r.v))
        ELSE HttpResponse_new("InternalServerError", None, None)

ReadFile ==
    /\ pc = "read_to_string"
    /\ response' = process_request_read(fs, path)
    /\ pc' = "send_response"
    /\ UNCHANGED <<fs, peer_addr, stream_in, request, path, wire, log, stderr, handled, lvars, hvars>>

\* one write!(stream, "{response}"): what was to be written and whether the
\* write succeeded
Written(text, ok) == [text |-> text, ok |-> ok]

send_response(r) ==
    \E order \in Orders(r.headers), ok \in BOOLEAN, ok_again \in BOOLEAN :
        LET error_response == HttpResponse_new("InternalServerError", None, None)
        IN  wire' = IF ok
                    THEN <<Written(Display(r, order), TRUE)>>
                    ELSE <<Written(Display(r, order), FALSE),
                           Written(Display(error_response, <<>>), ok_again)>>

\* handle_connection: the response to a request that did not parse, then return
SendError ==
    /\ pc = "send_error"
    /\ send_response(response)
    /\ pc' = "returned"
    /\ UNCHANGED <<fs, peer_addr, stream_in, request, path, response, log, stderr, handled, lvars, hvars>>

\* handle_connection: the response process_request built
SendResponse ==
    /\ pc = "send_response"
    /\ send_response(response)
    /\ pc' = "write_request_log"
    /\ UNCHANGED <<fs, peer_addr, stream_in, request, path, response, log, stderr, handled, lvars, hvars>>

WriteRequestLog_BeforeResponse ==
    /\ pc = "send_response"
    /\ log' = Append(log, log_line(request, response, peer_addr))
    /\ pc' = "returned"
    /\ UNCHANGED <<fs, peer_addr, stream_in, request, path, response, wire, stderr, handled, lvars, hvars>>

WriteRequestLog_FailureStops ==
    /\ pc = "write_request_log"
    /\ \E ok \in BOOLEAN :
          IF ok
          THEN /\ log' = Append(log, log_line(request, response, peer_addr))
               /\ pc' = "returned"
               /\ UNCHANGED stderr
          ELSE /\ stderr' = stderr + 1
               /\ pc' = "stopped"
               /\ UNCHANGED log
    /\ UNCHANGED <<fs, peer_addr, stream_in, request, path, response, wire, handled, lvars, hvars>>

\* handle_connection: the log line; a failure is printed to standard error
WriteRequestLog ==
    /\ pc = "write_request_log"
    /\ \E ok \in BOOLEAN :
          IF ok
          THEN log' = Append(log, log_line(request, response, peer_addr)) /\ UNCHANGED stderr
          ELSE stderr' = stderr + 1 /\ UNCHANGED log
    /\ pc' = "returned"
    /\ UNCHANGED <<fs, peer_addr, stream_in, request, path, response, wire, handled, lvars, hvars>>

Drop_FailedWriteStops ==
    /\ pc = "returned"
    /\ pc' = IF wire # <<>> /\ ~wire[1].ok THEN "stopped" ELSE "incoming"
    /\ peer_addr' = "none"
    /\ stream_in' = <<>>
    /\ request' = NoRequest
    /\ path' = <<>>
    /\ response' = NoResponse
    /\ wire' = <<>>
    /\ log' = <<>>
    /\ stderr' = 0
    /\ handled' = handled + 1
    /\ UNCHANGED <<fs, lvars, hvars>>

\* run: handle_connection has returned; the stream is dropped, which closes the
\* connection, and the loop goes back to the listener.  wire, log and stderr
\* hold what the handling of one connection wrote to its stream, appended to
\* the log and printed to standard error.
Drop ==
    /\ pc = "returned"
    /\ pc' = "incoming"
    /\ peer_addr' = "none"
    /\ stream_in' = <<>>
    /\ request' = NoRequest
    /\ path' = <<>>
    /\ response' = NoResponse
    /\ wire' = <<>>
    /\ log' = <<>>
    /\ stderr' = 0
    /\ handled' = handled + 1
    /\ UNCHANGED <<fs, lvars, hvars>>

Next ==
    \/ Accept
    \/ AcceptFails
    \/ FromStream
    \/ ProcessRequest
    \/ ReadFile
    \/ SendError
    \/ SendResponse
    \/ WriteRequestLog
    \/ Drop

Spec == Init /\ [][Next]_vars

\* handle_connection runs each of its steps once it has the connection: its
\* reads, the reads of the file and its writes return.  Whether a further
\* connection arrives is up to the clients.
\* The runs start on a sample of the filesystems that has every outcome of
\* the resolution and of the read: 200, 403, 404 and the two kinds of 500.
InitSample ==
    /\ fs \in FsSample
    /\ Init

FairSpec ==
    /\ InitSample
    /\ [][Next]_vars
    /\ WF_vars(FromStream)
    /\ WF_vars(ProcessRequest)
    /\ WF_vars(ReadFile)
    /\ WF_vars(SendError)
    /\ WF_vars(SendResponse)
    /\ WF_vars(WriteRequestLog)

\* run: besides the steps of handle_connection, the return from it to the
\* for loop over listener.incoming() is a step the program takes by itself
RunSpec ==
    /\ InitSample
    /\ [][Next]_vars
    /\ WF_vars(FromStream)
    /\ WF_vars(ProcessRequest)
    /\ WF_vars(ReadFile)
    /\ WF_vars(SendError)
    /\ WF_vars(SendResponse)
    /\ WF_vars(WriteRequestLog)
    /\ WF_vars(Drop)

\* Another process working on the root directory while process_request is
\* between the return of resolve_uri and fs::read_to_string: it replaces a
\* regular file in the root by a symbolic link to the file outside of it, or
\* the sub-directory (a component of the resolved path) by a symbolic link to
\* "/", whose entries are then no longer reached below the root.  A change at
\* any other moment is a run that starts on another filesystem.
Replaced(f, p) ==
    IF p = SubDir
    THEN [f EXCEPT ![SubDir] = LinkNode(FsRoot), ![SubIndex] = NoNode]
    ELSE [f EXCEPT ![p] = LinkNode(Outside)]

OtherProcess ==
    /\ pc = "read_to_string"
    /\ \E p \in {RootIndex, RootFile, SubDir, SubIndex} :
          /\ fs[p].kind \in {"file", "dir"}
          /\ fs' = Replaced(fs, p)
    /\ UNCHANGED <<pc, peer_addr, stream_in, request, path, response, wire, log, stderr, handled, lvars, hvars>>

RaceNext ==
    \/ Next
    \/ OtherProcess

RaceSpec == InitSample /\ [][RaceNext]_vars

----------------------------------------------------------------------------
(* DefaultLogger shared by several threads: write_request_log called          *)
(* concurrently.  A byte of a log line carries the thread and the call it     *)
(* belongs to and its place in the line; the last byte of a line is its       *)
(* newline.                                                                   *)

\* log_line.as_bytes(): the formatted line with its newline
LineBytes(c, n) == [i \in 1..LineLen |-> [by |-> c, call |-> n, i |-> i]]

lock_NoExclusion(m, c) == TRUE

\* Mutex::lock: returns the guard once no thread holds it
lock(m, c) == m = Unlocked

\* write_request_log up to the lock: the line is formatted
Format(c) ==
    /\ caller[c].pc = "idle"
    /\ caller[c].calls < MaxCalls
    /\ caller' = [caller EXCEPT ![c] = [pc |-> "lock", calls |-> caller[c].calls,
                                        bytes |-> LineBytes(c, caller[c].calls + 1)]]
    /\ UNCHANGED <<mvars, hvars, writer, mutex>>

\* self.writer.lock().unwrap()
Lock(c) ==
    /\ caller[c].pc = "lock"
    /\ lock(mutex, c)
    /\ mutex' = c
    /\ caller' = [caller EXCEPT ![c].pc = "write_all"]
    /\ UNCHANGED <<mvars, hvars, writer>>

\* write_all, byte after byte, through the guard
WriteAll(c) ==
    /\ caller[c].pc = "write_all"
    /\ caller[c].bytes # <<>>
    /\ writer' = Append(writer, Head(caller[c].bytes))
    /\ caller' = [caller EXCEPT ![c].bytes = Tail(caller[c].bytes)]
    /\ UNCHANGED <<mvars, hvars, mutex>>

\* write_all has returned; the guard is dropped at the end of the statement and
\* write_request_log returns
Unlock(c) ==
    /\ caller[c].pc = "write_all"
    /\ caller[c].bytes = <<>>
    /\ mutex' = Unlocked
    /\ caller' = [caller EXCEPT ![c] = Idle(caller[c].calls + 1)]
    /\ UNCHANGED <<mvars, hvars, writer>>

LoggerNext ==
    \E c \in Callers :
        \/ Format(c)
        \/ Lock(c)
        \/ WriteAll(c)
        \/ Unlock(c)

LoggerSpec == InitSample /\ [][LoggerNext]_vars

----------------------------------------------------------------------------
(* The functions of the program called on their own, on arguments the      *)
(* handler does not pass them.                                             *)

\* HttpStatus
HttpStatus ==
    {"BadRequest", "Forbidden", "HttpVersionNotSupported", "InternalServerError",
     "MethodNotAllowed", "NotFound", "Ok"}

\* header maps a caller of HttpResponse::new supplies
SuppliedHeaders ==
    {[k \in K |-> CASE k = "Content-Length" -> "99"
                    [] k = "Content-Type" -> "text/html"
                    [] k = "Server" -> "serve"] :
        K \in SUBSET {"Content-Length", "Content-Type", "Server"}}

HttpResponse_new_Calls ==
    [f : {"HttpResponse::new"},
     status : {"Ok", "NotFound"},
     headers : {None} \cup {Some(h) : h \in SuppliedHeaders},
     body : {None, Some(<<>>), Some(Hello), Some(Hello \o Hello)}]

Call_HttpResponse_new ==
    /\ call.f = "HttpResponse::new"
    /\ ~ret.done
    /\ ret' = Returns(HttpResponse_new(call.status, call.headers, call.body))
    /\ UNCHANGED <<mvars, lvars, call>>

\* the extensions of the table of Mime::from_str
TableExtensions ==
    {"gz", "json", "jsonld", "bin", "xml", "zip", "gif", "jpeg", "jpg", "png", "svg",
     "ics", "css", "csv", "html", "mjs", "js", "md", "txt"}

\* file names: one of every extension of the table, of extensions in other
\* case and of unknown ones, names without extension, with a leading dot
\* only, with an empty extension and with two dots
FileNames ==
    {<<"f", e>> : e \in TableExtensions \cup {"HTML", "Txt", "htm", "exe", ""}}
    \cup {<<"f">>, <<"", "html">>, <<"a", "tar", "gz">>, <<"f", "html", "bak">>}

\* a root directory that holds one entry of the given name
RootWith(name, node) ==
    [p \in {FsRoot, RootDir, RootDir \o <<name>>} |->
        IF p = RootDir \o <<name>> THEN node ELSE DirNode]

process_request_read_Calls ==
    [f : {"process_request"},
     name : FileNames,
     node : {FileNode(Hello), FileNode(NotUtf8), NoNode}]

Call_process_request_read ==
    /\ call.f = "process_request"
    /\ ~ret.done
    /\ ret' = Returns(process_request_read(RootWith(call.name, call.node),
                                           RootDir \o <<call.name>>))
    /\ UNCHANGED <<mvars, lvars, call>>

Display_Calls ==
    [f : {"Display"}, status : HttpStatus, body : {None, Some(Hello)}]

\* a response is built and serialized; what is returned is the text of its
\* first line
Call_Display ==
    /\ call.f = "Display"
    /\ ~ret.done
    /\ LET r == HttpResponse_new(call.status, None, call.body)
       IN  \E order \in Orders(r.headers) :
              ret' = Returns(StatusLineText(Display(r, order)[1]))
    /\ UNCHANGED <<mvars, lvars, call>>

\* header lines: "Referer: r", " Host :  h  ", "a:b:c", "X-Two: two words",
\* ":", and without colon "oops", " no colon " and " "
HeaderTexts ==
    {<<<<"Referer">>, <<"", "r">>>>,
     <<<<"", "Host", "">>, <<"", "", "h", "", "">>>>,
     <<<<"a">>, <<"b">>, <<"c">>>>,
     <<<<"X-Two">>, <<"", "two", "words">>>>,
     <<<<"">>, <<"">>>>,
     <<<<"oops">>>>,
     <<<<"", "no", "colon", "">>>>,
     <<<<"", "">>>>}

parse_headers_Calls ==
    {[f |-> "parse_headers", lines |-> h \o t] :
        h \in SeqsUpTo({LineEvent(x) : x \in HeaderTexts}, MaxLines),
        t \in {<<LineEvent(BlankLine)>>, <<>>, <<ErrEvent>>}}

Call_parse_headers ==
    /\ call.f = "parse_headers"
    /\ ~ret.done
    /\ ret' = Returns(parse_headers(call.lines))
    /\ UNCHANGED <<mvars, lvars, call>>

\* targets made of slashes and of segments "a": "", "a", "/", "//a//", ...
SlashTargets == SeqsUpTo({EmptySeg, <<"a">>}, MaxTargetSegs) \ {<<>>}

trim_Calls == [f : {"trim_matches"}, uri : SlashTargets]

\* resolve_uri, its first statement: the target without its slashes
Call_trim_matches ==
    /\ call.f = "trim_matches"
    /\ ~ret.done
    /\ ret' = Returns(trim_end_matches(trim_start_matches(call.uri)))
    /\ UNCHANGED <<mvars, lvars, call>>

Calls ==
    HttpResponse_new_Calls \cup process_request_read_Calls \cup Display_Calls
    \cup parse_headers_Calls \cup trim_Calls

PureInit ==
    /\ fs \in FsSample
    /\ InitServer
    /\ call \in Calls
    /\ ret = NotReturned

PureNext ==
    \/ Call_HttpResponse_new
    \/ Call_process_request_read
    \/ Call_Display
    \/ Call_parse_headers
    \/ Call_trim_matches

PureSpec == PureInit /\ [][PureNext]_vars

----------------------------------------------------------------------------
(* Vocabulary of the properties *)

\* handle_connection has returned
Returned == pc = "returned"

\* the client sent at least one line
HasRequestLine == stream_in # <<>> /\ Head(stream_in).t = "line"

\* the words of the request line
Tokens == SelectSeq(Head(stream_in).txt, LAMBDA w : w # EmptyWord)

\* the header block is read to its end without an I/O error and without a
\* line that lacks a colon
RECURSIVE CleanHeaderBlock(_)
CleanHeaderBlock(lines) ==
    \/ lines = <<>>
    \/ /\ Head(lines).t = "line"
       /\ \/ Head(lines).txt = BlankLine
          \/ Len(Head(lines).txt) > 1 /\ CleanHeaderBlock(Tail(lines))

\* a read of the request line or of a header line fails with an I/O error
\* before anything else ends the parse
RECURSIVE ReadFails(_)
ReadFails(lines) ==
    /\ lines # <<>>
    /\ \/ Head(lines).t = "err"
       \/ /\ Head(lines).txt # BlankLine
          /\ Len(Head(lines).txt) > 1
          /\ ReadFails(Tail(lines))

\* the status code and the body of a serialized response
CodeOf(text) == text[1].code
HasBody(text) == Last(text).k = "body"

\* the handler writes a response with status code n and no body: it is the
\* first thing written, and all that is written when that write succeeds
RespondsBare(n) ==
    /\ wire # <<>>
    /\ CodeOf(wire[1].text) = n
    /\ ~HasBody(wire[1].text)
    /\ wire[1].ok => Len(wire) = 1

\* the canonical form of p, when p denotes anything, lies in the canonical root
Confined(f, p) ==
    LET c == canonicalize(f, p)
    IN  c.ok => IsPrefix(canonicalize(f, RootDir).v, c.v)

\* where the resolution of a path ends: at the entry it denotes, or at the
\* entry that is missing or is no directory
RECURSIVE StopsAt(_, _, _)
StopsAt(f, resolved, rest) ==
    IF rest = <<>> THEN resolved
    ELSE IF Head(rest) = DotDot
    THEN StopsAt(f, IF resolved = <<>> THEN <<>> ELSE Front(resolved), Tail(rest))
    ELSE LET here == Append(resolved, Head(rest))
         IN  IF lstat(f, here).kind = "link"
             THEN StopsAt(f, <<>>, lstat(f, here).target \o Tail(rest))
             ELSE IF lstat(f, here).kind = "dir"
             THEN StopsAt(f, here, Tail(rest))
             ELSE here

LeadsOutside(f, p) == ~IsPrefix(RootDir, StopsAt(f, <<>>, p))

\* the target with every leading and trailing slash removed
Trimmed(uri) == trim_end_matches(trim_start_matches(uri))

\* the regular files in the root
FilesInRoot(f) == {p \in {RootIndex, RootFile, SubIndex} : f[p].kind = "file"}

\* the request target that names p by its path relative to the root
RelativeTarget(p) == <<EmptySeg>> \o Tail(p)

\* the content type of a file name's extension
ContentTypeOf(p) ==
    CASE Last(Last(p)) = "html" -> "text/html"
      [] Last(Last(p)) = "txt" -> "text/plain"

\* the request line has three words and the read of the header block fails
IoErrorWhileReading ==
    /\ stream_in # <<>>
    /\ \/ Head(stream_in).t = "err"
       \/ Len(Tokens) = 3 /\ ReadFails(Tail(stream_in))

----------------------------------------------------------------------------
(* Properties *)

\* C1: whenever resolve_uri returns Ok(path), the file that path denotes after
\* symlink resolution lies inside the canonical root, and so every 200 response
\* carries the contents of a file inside the root.
C1_PathConfinement ==
    /\ pc = "read_to_string" => Confined(fs, path)
    /\ response.status = "Ok" => Confined(fs, path)

\* C2: for every target whose joined path leads outside the root, through '..'
\* segments or a symbolic link, resolve_uri returns PermissionDenied, whether
\* the place it leads to exists or not.
C2_TraversalHidden ==
    (/\ pc = "process_request"
     /\ ~is_empty(Trimmed(request.uri))
     /\ LeadsOutside(fs, join(RootDir, Trimmed(request.uri))))
    => resolve_uri(fs, request.uri, RootDir) = IoErr("PermissionDenied")

\* C3: a request whose method token is not GET is answered with 405 Method Not
\* Allowed and no body.
C3_NonGetIs405 ==
    (/\ Returned
     /\ HasRequestLine
     /\ Len(Tokens) = 3
     /\ Tokens[1] # GetWord
     /\ CleanHeaderBlock(Tail(stream_in)))
    => RespondsBare(405)

C5_TokenCountIs400 ==
    (/\ Returned
     /\ HasRequestLine
     /\ Head(stream_in).txt # <<EmptyWord>>
     /\ Len(Tokens) # 3)
    => /\ from_stream(stream_in).err = "MalformedRequest"
       /\ from_stream(stream_in).detail = Head(stream_in).txt
       /\ RespondsBare(400)

C5_Witness ==
    /\ Returned
    /\ HasRequestLine
    /\ Len(Tokens) = 4
    /\ Len(stream_in) > 1
    /\ stream_in[2] = ErrEvent
    /\ RespondsBare(400)

\* C6: a well-formed GET HTTP/1.0 request for the relative path of a regular
\* file in the root, whatever its contents, is answered with 200, the file's
\* contents as body and the content type of its extension.
C6_FileIsServed ==
    \A p \in FilesInRoot(fs) :
        (/\ Returned
         /\ request # NoRequest
         /\ request.uri = RelativeTarget(p))
        => /\ response.status = "Ok"
           /\ response.body = Some(fs[p].data)
           /\ response.headers["Content-Type"] = ContentTypeOf(p)

\* C7: a GET request whose non-empty target resolves to a directory in the
\* root is answered with 200 and the contents of the directory's index.html
\* when the directory holds that file, and with 404 when it does not.
C7_DirectoryIndex ==
    LET dir == canonicalize(fs, join(RootDir, Trimmed(request.uri)))
        index == dir.v \o <<IndexHtml>>
    IN  (/\ Returned
         /\ request # NoRequest
         /\ ~is_empty(Trimmed(request.uri))
         /\ dir.ok
         /\ IsPrefix(RootDir, dir.v)
         /\ lstat(fs, dir.v).kind = "dir")
        => IF stat(fs, index).kind = "file"
           THEN response.status = "Ok" /\ response.body = Some(stat(fs, index).data)
           ELSE response.status = "NotFound"

\* C8: for a target that is empty after the slashes are trimmed the resolver
\* yields the root's index.html, and when the root has no index.html the
\* outcome is NotFound, a 404 response.
C8_EmptyTargetIsRootIndex ==
    (/\ Returned
     /\ request # NoRequest
     /\ is_empty(Trimmed(request.uri)))
    => /\ path = RootIndex
       /\ fs[RootIndex].kind = "none" => response.status = "NotFound"

\* C9: when the stream ends before any line is read, from_stream returns
\* Ok(None), and the handler writes nothing to the stream and appends nothing to
\* the log.
C9_NoRequestNoResponse ==
    (/\ Returned
     /\ stream_in = <<>>)
    => /\ from_stream(stream_in) = ParseOk(NoRequest)
       /\ wire = <<>>
       /\ log = <<>>

C9_Witness ==
    /\ Returned
    /\ stream_in = <<>>
    /\ wire = <<>>

\* C10 as claimed: when the read of the request line or of a header line fails
\* with an I/O error, the handler writes nothing to the stream.
C10_IoErrorWritesNothing ==
    (Returned /\ IoErrorWhileReading) => wire = <<>>

\* C10 as amended: when the read of the request line or of a header line fails
\* with an I/O error, the handler writes a 500 Internal Server Error response
\* without body to the stream.
C10_IoErrorIs500 ==
    (Returned /\ IoErrorWhileReading) => RespondsBare(500)

C10_Witness ==
    /\ Returned
    /\ HasRequestLine
    /\ Len(stream_in) > 1
    /\ stream_in[2] = ErrEvent
    /\ Len(Tokens) = 3
    /\ RespondsBare(500)

\* a serialized response begins with a whole status line and has its empty line
Complete(text) ==
    /\ text[1].k = "status"
    /\ text[1].version = "HTTP/1.0"
    /\ text[1].code \in {200, 400, 403, 404, 405, 500, 505}
    /\ \E i \in 2..Len(text) :
          /\ text[i].k = "empty"
          /\ \A j \in 2..(i - 1) : text[j].k = "header"

\* the client sent something: a line, or bytes the read of which fails
SentSomething == stream_in # <<>>

LogCalls == Len(log) + stderr

\* C12: on every connection on which a response is written to the stream,
\* whatever its status, write_request_log is called exactly once.
C12_OneLogCallPerResponse ==
    (Returned /\ wire # <<>>) => LogCalls = 1

\* a step that writes to the stream, and a step that appends to the log
WritesToStream == wire' # wire /\ wire' # <<>>
AppendsToLog == log' # log /\ log' # <<>>

ActuallyWritten == IF wire[1].ok THEN wire[1].text ELSE wire[2].text

\* the number of bytes of the body in a serialized response
BodyBytes(text) == IF HasBody(text) THEN Len(Last(text).data) ELSE 0

\* C14: the status code and the body byte count of a log line are those of the
\* response written to the stream, also when the first write fails and
\* send_response writes its fallback response.
C14_LogMatchesWire ==
    (Returned /\ log # <<>>)
    => /\ log[1].status = CodeOf(ActuallyWritten)
       /\ log[1].body_bytes_sent = BodyBytes(ActuallyWritten)

\* C15: a failure of write_request_log is printed to standard error and
\* nothing else: handle_connection returns, what was written to the stream
\* stays as it is, and run goes back to the listener for the next connection.
C15_LogFailureOnlyReported ==
    /\ [][(pc = "write_request_log" /\ log' = log)
            => /\ stderr' = stderr + 1
               /\ pc' = "returned"
               /\ wire' = wire
               /\ response' = response]_vars
    /\ [][(Returned /\ stderr > 0) => (pc' = "incoming" /\ wire' = <<>>)]_vars
    /\ []((Returned /\ stderr > 0) => ENABLED Drop)

C15_Witness ==
    /\ Returned
    /\ stderr = 1
    /\ log = <<>>
    /\ wire # <<>>
    /\ wire[1].ok
    /\ response.status = "Ok"

\* C16: after a write of a response to the stream fails no further write to
\* the stream is attempted: at most one response is written per connection.
C16_WriteFailureIsTerminal ==
    /\ Len(wire) <= 1
    /\ (wire # <<>> /\ ~wire[1].ok) => Len(wire) = 1

\* the status code the specification gives each failure of the parse
MappedCode(e) ==
    CASE e = "UnsupportedHttpVersion" -> 505
      [] e \in {"MalformedRequest", "InvalidMethod", "InvalidUri"} -> 400
      [] e = "IoError" -> 500

C18_OneAtATime ==
    /\ [][(pc' = "from_stream" /\ pc # "from_stream")
            => /\ pc = "incoming"
               /\ peer_addr = "none"
               /\ request = NoRequest
               /\ response = NoResponse
               /\ wire = <<>>
               /\ log = <<>>]_vars
    /\ [][(pc' = "incoming" /\ pc # "incoming")
            => (pc = "returned" /\ handled' = handled + 1)]_vars
    /\ [][(pc' = "returned" /\ pc # "returned")
            => pc \in {"from_stream", "send_error", "write_request_log"}]_vars

C18_Witness ==
    /\ pc = "from_stream"
    /\ handled = 1
    /\ stream_in # <<>>
    /\ wire = <<>>

\* C19: with several threads calling write_request_log on one DefaultLogger
\* the bytes handed to the writer are whole log lines one after the other:
\* every byte but the first of a line directly follows the byte before it of
\* the same line, a line starts only where the line before has ended, and an
\* unfinished line is the last one, being written by the holder of the lock.
C19_WholeLines ==
    \A j \in 1..Len(writer) :
        LET b == writer[j]
        IN  /\ b.i > 1 => (j > 1 /\ writer[j - 1] = [b EXCEPT !.i = b.i - 1])
            /\ (b.i = 1 /\ j > 1) => writer[j - 1].i = LineLen
            /\ (b.i < LineLen /\ j = Len(writer))
                  => (mutex = b.by /\ caller[b.by].pc = "write_all")

C19_Witness ==
    \E c1, c2 \in Callers :
        /\ c1 # c2
        /\ mutex = c1
        /\ caller[c2].pc = "lock"
        /\ Len(writer) > LineLen
        /\ writer[1].by = c2
        /\ Last(writer).by = c1
        /\ Last(writer).i < LineLen

\* C20: serializing a response always yields the same bytes: whatever order
\* the iteration over the header map takes, the header lines come out in the
\* same order.
C20_ByteReproducible ==
    response # NoResponse
    => \A o1, o2 \in Orders(response.headers) :
          Display(response, o1) = Display(response, o2)

\* the header map a caller of HttpResponse::new passed
Supplied == IF call.headers.some THEN call.headers.v ELSE NoHeaders

\* C21: HttpResponse::new fills in defaults only where needed: with a body,
\* Content-Length is the body's length in bytes when the caller supplied none
\* and Content-Type is text/plain when the caller supplied none; every header
\* the caller supplied is kept as it is; without a body no header is added.
C21_DefaultsOnlyWhereNeeded ==
    (call.f = "HttpResponse::new" /\ ret.done)
    => LET r == ret.v
       IN  /\ r.status = call.status
           /\ r.body = call.body
           /\ \A k \in DOMAIN Supplied : k \in DOMAIN r.headers /\ r.headers[k] = Supplied[k]
           /\ DOMAIN r.headers =
                 DOMAIN Supplied
                 \cup (IF call.body.some THEN {"Content-Length", "Content-Type"} ELSE {})
           /\ (call.body.some /\ "Content-Length" \notin DOMAIN Supplied)
                 => r.headers["Content-Length"] = ToString(Len(call.body.v))
           /\ (call.body.some /\ "Content-Type" \notin DOMAIN Supplied)
                 => r.headers["Content-Type"] = "text/plain"

C21_Witness ==
    /\ call.f = "HttpResponse::new"
    /\ ret.done
    /\ call.body = Some(Hello)
    /\ DOMAIN Supplied = {"Content-Length", "Server"}
    /\ ret.v.headers["Content-Length"] = "99"
    /\ ret.v.headers["Content-Type"] = "text/plain"

\* the value of a request header, or "-" when the request has none of that name
HeaderOrDash(name) ==
    IF <<name>> \in DOMAIN request.headers THEN request.headers[<<name>>] ELSE <<<<"-">>>>

\* C22: a log line has the peer address, the quoted "-" of the remote user,
\* the request line with method and version as their wire tokens (GET,
\* HTTP/1.0), the status code, the length of the response body in bytes (0
\* without body), and the Referer and User-Agent header values or "-".
C22_LogLineFormat ==
    (Returned /\ log # <<>>)
    => /\ log[1].remote_addr = peer_addr
       /\ log[1].remote_user = "\"-\""
       /\ log[1].request_line =
             <<HttpMethod_Display(request.method), request.uri,
               HttpVersion_Display(request.version)>>
       /\ log[1].status = code(response.status)
       /\ log[1].body_bytes_sent = (IF response.body.some THEN Len(response.body.v) ELSE 0)
       /\ log[1].referer = HeaderOrDash("Referer")
       /\ log[1].user_agent = HeaderOrDash("User-Agent")

\* the table of content types, by extension
MimeTable ==
    {<<"gz", "application/gzip">>, <<"json", "application/json">>,
     <<"jsonld", "application/ld+json">>, <<"bin", "application/octet-stream">>,
     <<"xml", "application/xml">>, <<"zip", "application/zip">>, <<"gif", "image/gif">>,
     <<"jpeg", "image/jpeg">>, <<"jpg", "image/jpeg">>, <<"png", "image/png">>,
     <<"svg", "image/svg+xml">>, <<"ics", "text/calendar">>, <<"css", "text/css">>,
     <<"csv", "text/csv">>, <<"html", "text/html">>, <<"mjs", "text/javascript">>,
     <<"js", "text/javascript">>, <<"md", "text/markdown">>, <<"txt", "text/plain">>}

\* a file name has an extension when it has a dot that is not its first
\* character; the extension is what follows the last dot
HasExtension(name) == Len(name) > 2 \/ (Len(name) = 2 /\ name[1] # "")

\* the content type the table gives a file name
TableContentType(name) ==
    IF HasExtension(name) /\ \E t \in MimeTable : t[1] = Last(name)
    THEN (CHOOSE t \in MimeTable : t[1] = Last(name))[2]
    ELSE "application/octet-stream"

\* the file can be read as text
Readable(node) == node.kind = "file" /\ \A i \in 1..Len(node.data) : node.data[i] < 128

\* C23: the choice of the content type is total and fails no request: an
\* extension that matches an entry of the table exactly gives that entry's
\* content type, an unknown, differently-cased or absent extension gives
\* application/octet-stream, and the status of the response is that of the
\* read whatever the extension.
C23_ContentTypeIsTotal ==
    (call.f = "process_request" /\ ret.done)
    => /\ ret.v.status = (IF Readable(call.node) THEN "Ok" ELSE "InternalServerError")
       /\ ret.v.status = "Ok" => ret.v.headers["Content-Type"] = TableContentType(call.name)

C23_Witness ==
    /\ call.f = "process_request"
    /\ ret.done
    /\ call.name = <<"f", "HTML">>
    /\ ret.v.status = "Ok"
    /\ ret.v.headers["Content-Type"] = "application/octet-stream"

\* a status line split at its first two spaces: version, code, reason phrase
SplitStatusLine(words) ==
    [version |-> words[1], code |-> words[2], reason |-> SubSeq(words, 3, Len(words))]

\* the code and the reason phrase of each status
StatusTable ==
    {<<"BadRequest", "400", <<"Bad", "Request">>>>,
     <<"Forbidden", "403", <<"Forbidden">>>>,
     <<"HttpVersionNotSupported", "505", <<"Http", "Version", "Not", "Supported">>>>,
     <<"InternalServerError", "500", <<"Interal", "Server", "Errror">>>>,
     <<"MethodNotAllowed", "405", <<"Method", "Not", "Allowed">>>>,
     <<"NotFound", "404", <<"Not", "Found">>>>,
     <<"Ok", "200", <<"Ok">>>>}

\* C24: for each of the seven statuses, splitting the status line of a
\* serialized response into version, code and reason phrase recovers the code
\* and the reason of that status; code and reason are functions of the status
\* and no two statuses have the same code.
C24_StatusRoundTrip ==
    /\ (call.f = "Display" /\ ret.done)
       => LET got == SplitStatusLine(ret.v)
          IN  /\ got.version = "HTTP/1.0"
              /\ got.code = ToString(code(call.status))
              /\ got.reason = HttpStatus_Display(call.status)
              /\ <<call.status, got.code, got.reason>> \in StatusTable
    /\ \A s1, s2 \in HttpStatus : code(s1) = code(s2) => s1 = s2

C24_Witness ==
    /\ call.f = "Display"
    /\ ret.done
    /\ call.status = "MethodNotAllowed"
    /\ call.body = Some(Hello)
    /\ SplitStatusLine(ret.v).code = "405"

\* process_request has returned a response for the request
Processed ==
    /\ pc \in {"send_response", "write_request_log", "returned"}
    /\ request # NoRequest

\* the response has neither body nor header
Bare(r) == ~r.body.some /\ DOMAIN r.headers = {}

\* C25: when the resolution of the URI fails the handler maps the kind of the
\* error to one status (PermissionDenied: 403, NotFound: 404, any other: 500),
\* builds a response without body, and neither reads a file nor selects a
\* content type.
C25_ResolveFailure ==
    LET r == resolve_uri(fs, request.uri, RootDir)
    IN  (Processed /\ ~r.ok)
        => /\ code(response.status) =
                 (CASE r.kind = "PermissionDenied" -> 403
                    [] r.kind = "NotFound" -> 404
                    [] OTHER -> 500)
           /\ Bare(response)
           /\ path = <<>>

C25_Witness ==
    /\ Returned
    /\ request # NoRequest
    /\ resolve_uri(fs, request.uri, RootDir) = IoErr("NotADirectory")
    /\ response.status = "InternalServerError"
    /\ wire # <<>>

\* C26: when the read of the resolved file fails after the resolution
\* succeeded, the response is 500 Internal Server Error without body, and the
\* request is still logged.
C26_ReadFailureIs500 ==
    (Returned /\ path # <<>> /\ ~read_to_string(fs, path).ok)
    => /\ response.status = "InternalServerError"
       /\ Bare(response)
       /\ LogCalls = 1
       /\ log # <<>> => log[1].status = 500

C26_Witness ==
    /\ Returned
    /\ path = RootFile
    /\ fs[RootFile] = FileNode(NotUtf8)
    /\ resolve_uri(fs, request.uri, RootDir) = IoOk(RootFile)
    /\ Len(log) = 1
    /\ log[1].status = 500

\* a field without the whitespace before its first and after its last
\* character that is none
StripLeft(field) ==
    LET idx == {i \in 1..Len(field) : field[i] # ""}
    IN  IF idx = {} THEN <<"">>
        ELSE SubSeq(field, CHOOSE i \in idx : \A j \in idx : i <= j, Len(field))

StripRight(field) ==
    LET idx == {i \in 1..Len(field) : field[i] # ""}
    IN  IF idx = {} THEN <<"">>
        ELSE SubSeq(field, 1, CHOOSE i \in idx : \A j \in idx : j <= i)

\* the name of a header line: the text before its first colon, stripped
NameOf(line) == StripRight(StripLeft(line[1]))

\* the value of a header line: the text after its first colon, stripped
ValueOf(line) ==
    LET rest == Tail(line)
    IN  IF Len(rest) = 1 THEN <<StripRight(StripLeft(rest[1]))>>
        ELSE <<StripLeft(rest[1])>> \o SubSeq(rest, 2, Len(rest) - 1) \o <<StripRight(Last(rest))>>

\* where the reading of a header block stops: at the first line that is empty
\* or has no colon, at the first failed read, or past the end of the stream
StopsAtLine(lines) ==
    LET idx == {i \in 1..Len(lines) : lines[i].t = "err" \/ Len(lines[i].txt) = 1}
    IN  IF idx = {} THEN Len(lines) + 1 ELSE CHOOSE i \in idx : \A j \in idx : i <= j

\* C27: every header line read before the empty line that ends the block must
\* have a colon: a line without one makes the parse fail with
\* MalformedRequest citing the line as it is, which maps to 400; of a line
\* with a colon the name and the value stored are the text before and after
\* its first colon, stripped of leading and trailing whitespace.
C27_HeaderLines ==
    (call.f = "parse_headers" /\ ret.done)
    => LET lines == call.lines
           stop == StopsAtLine(lines)
           read == 1..(stop - 1)
       IN  IF stop <= Len(lines) /\ lines[stop].t = "line" /\ lines[stop].txt # BlankLine
           THEN /\ ~ret.v.ok
                /\ ret.v.err = "MalformedRequest"
                /\ ret.v.detail = lines[stop].txt
                /\ code(HttpStatus_from(ret.v.err)) = 400
           ELSE IF stop <= Len(lines) /\ lines[stop].t = "err"
           THEN ~ret.v.ok /\ ret.v.err = "IoError"
           ELSE /\ ret.v.ok
                /\ DOMAIN ret.v.v = {NameOf(lines[i].txt) : i \in read}
                /\ \A i \in read :
                      (\A j \in read : j > i => NameOf(lines[j].txt) # NameOf(lines[i].txt))
                      => ret.v.v[NameOf(lines[i].txt)] = ValueOf(lines[i].txt)

C27_Witness ==
    /\ call.f = "parse_headers"
    /\ ret.done
    /\ Len(call.lines) = 2
    /\ call.lines[1].txt = <<<<"", "Host", "">>, <<"", "", "h", "", "">>>>
    /\ call.lines[2].txt = <<<<"", "no", "colon", "">>>>
    /\ ret.v.detail = <<<<"", "no", "colon", "">>>>

\* a target without one leading and one trailing slash
StripOneSlashEachEnd(uri) ==
    LET u == IF Len(uri) > 1 /\ Head(uri) = EmptySeg THEN Tail(uri) ELSE uri
    IN  IF Len(u) > 1 /\ Last(u) = EmptySeg THEN Front(u) ELSE u

\* a target from its first to its last character that is no slash; the empty
\* string when it has none
WithoutOuterSlashes(uri) ==
    LET idx == {i \in 1..Len(uri) : uri[i] # EmptySeg}
    IN  IF idx = {} THEN <<EmptySeg>>
        ELSE SubSeq(uri, CHOOSE i \in idx : \A j \in idx : i <= j,
                         CHOOSE i \in idx : \A j \in idx : j <= i)

\* C28 as claimed: the resolver strips exactly one leading and exactly one
\* trailing slash from the target, so that "//a//" is reduced to "/a/".
C28_StripsOneSlash ==
    (call.f = "trim_matches" /\ ret.done) => ret.v = StripOneSlashEachEnd(call.uri)

\* C28 as amended: the resolver strips every leading and every trailing slash
\* from the target: "//a//" is reduced to "a", and a target of slashes only
\* to the empty string.
C28_StripsEverySlash ==
    (call.f = "trim_matches" /\ ret.done) => ret.v = WithoutOuterSlashes(call.uri)

C28_Witness ==
    /\ call.f = "trim_matches"
    /\ ret.done
    /\ call.uri = <<EmptySeg, EmptySeg, <<"a">>, EmptySeg, EmptySeg>>
    /\ ret.v = <<<<"a">>>>

\* the first defect of a request, in the order of the checks of from_stream:
\* the number of tokens of the request line, the header block, the method,
\* the version
FirstDefect ==
    LET block == Tail(stream_in)
        stop == StopsAtLine(block)
    IN  IF Len(Tokens) # 3 THEN "MalformedRequest"
        ELSE IF stop <= Len(block) /\ block[stop].t = "err" THEN "IoError"
        ELSE IF stop <= Len(block) /\ block[stop].txt # BlankLine THEN "MalformedRequest"
        ELSE IF Tokens[1] # GetWord THEN "InvalidMethod"
        ELSE IF Tokens[3] # Http10Word THEN "UnsupportedHttpVersion"
        ELSE "none"

\* C29: the failures of the parse have a fixed precedence: a wrong number of
\* tokens in the request line first, then a failed read or a malformed line
\* anywhere in the header block, then an invalid method, an unsupported
\* version last; a request with several defects gets the status of the first
\* of them in that order.
C29_ParseErrorPrecedence ==
    (Returned /\ HasRequestLine)
    => IF FirstDefect = "none"
       THEN from_stream(stream_in).ok /\ request # NoRequest
       ELSE /\ ~from_stream(stream_in).ok
            /\ from_stream(stream_in).err = FirstDefect
            /\ RespondsBare(MappedCode(FirstDefect))

C29_Witness ==
    /\ Returned
    /\ HasRequestLine
    /\ Tokens = <<PostWord, SlashWord, Http11Word>>
    /\ CleanHeaderBlock(Tail(stream_in))
    /\ Len(stream_in) = 3
    /\ RespondsBare(400)
    /\ wire[1].ok

\* the value of the Content-Length header in a serialized response
ContentLengthOf(text) ==
    LET idx == {i \in 1..Len(text) : text[i].k = "header" /\ text[i].name = "Content-Length"}
    IN  IF idx = {} THEN "none" ELSE text[CHOOSE i \in idx : TRUE].value

\* the number of bytes the serializer writes after the empty line
BytesAfterEmptyLine(text) == IF HasBody(text) THEN Len(BodyLineBytes(Last(text))) ELSE 0

\* C30: for every response with a non-empty body the value of the
\* Content-Length header is the number of bytes written to the stream after
\* the empty line that ends the header block.
C30_ContentLengthIsBytesWritten ==
    (wire # <<>> /\ HasBody(wire[1].text))
    => ContentLengthOf(wire[1].text) = ToString(BytesAfterEmptyLine(wire[1].text))

----------------------------------------------------------------------------
(* C31 *)

\* the connection at hand is being handled: accepted and not yet back in the loop
Handling == pc \notin {"incoming", "stopped"}

\* the outcomes of handle_connection that are failures
NoRequestRead == wire = <<>>
ParseFailed == wire # <<>> /\ request = NoRequest
ResolveOrReadFailed ==
    /\ request # NoRequest
    /\ response.status \in {"Forbidden", "NotFound", "InternalServerError"}
ResponseWriteFailed == wire # <<>> /\ ~wire[1].ok
LogWriteFailed == stderr > 0

\* C31: no failure within a connection stops the server: whatever the outcome
\* of handle_connection (no request, parse error, failed resolution or read,
\* failed write of the response, failed write of the log line), the run loop
\* goes back to the listener for the next connection; run returns only from
\* the listener, when accepting a connection fails.
C31_FailuresDoNotStopRun ==
    /\ [][pc' = "stopped" => pc = "incoming"]_vars
    /\ Handling ~> (pc = "incoming")

\* a connection accepted after an earlier one was handled, itself ending with a
\* failed read of the file, a failed write of the response and a failed write
\* of the log line
C31_Witness ==
    /\ handled >= 1
    /\ Returned
    /\ ResolveOrReadFailed
    /\ ResponseWriteFailed
    /\ LogWriteFailed

----------------------------------------------------------------------------
(* C32 *)

\* the request passed the confinement check of resolve_uri: its target is not
\* empty after the slashes are trimmed, and the response is a 200
ServedAfterCheck ==
    /\ response.status = "Ok"
    /\ ~is_empty(Trimmed(request.uri))

\* C32: when another process replaces a file or a component of the path by a
\* symbolic link between the confinement check of resolve_uri and the read in
\* process_request, the body of a 200 response is still the content of a file
\* that lies inside the root when it is read.  (The filesystem changes only
\* between the check and the read, so in a state with a 200 response it is
\* the filesystem the read saw.)
C32_CheckToUseAtomicity ==
    ServedAfterCheck
    => /\ Confined(fs, path)
       /\ IsPrefix(RootDir, canonicalize(fs, path).v)
       /\ response.body = Some(lstat(fs, canonicalize(fs, path).v).data)

====
